---- MODULE Spec2Model ----
(***************************************************************************)
(* A model of async_ticker.py: the binary tick codec of MainTicker         *)
(* (_split_packets, _unpack_int, _parse_binary), its three proxy handlers  *)
(* (_on_connect, _on_message, _on_close) and its three control calls       *)
(* (subscribe, unsubscribe, set_mode).                                     *)
(*                                                                         *)
(* Conventions.                                                            *)
(*  - bytes objects are sequences of integers 0..255; Python's 0-based     *)
(*    half-open index pairs are kept in the operators' arguments.          *)
(*  - a Python call that may raise returns [err |-> e, val |-> v]; err is  *)
(*    "none" or the name of the exception that leaves the call.            *)
(*  - a float raw / divisor is the exact fraction [num |-> raw,            *)
(*    den |-> divisor]; floating-point rounding is not modelled.           *)
(*  - model values stay below 2^31: the generated payloads keep the top    *)
(*    byte of every 32-bit field at 0.                                     *)
(***************************************************************************)
EXTENDS Integers, Sequences, FiniteSets, TLC

VARIABLES
    bin,          \* codec: the frame given to _split_packets / _parse_binary
    feed,         \* codec: how the frame was built (the sender's view of it)
    split,        \* codec: outcome of _split_packets(bin)
    parsed,       \* codec: outcome of _parse_binary(bin)
    on_ticks,     \* MainTicker.on_ticks
    on_connect,   \* MainTicker.on_connect
    on_message,   \* MainTicker.on_message
    on_close,     \* MainTicker.on_close ("unset": the attribute does not exist)
    factory,      \* MainTicker.factory
    nev,          \* number of proxy events handled so far
    last_event,   \* the proxy event handled last
    last_calls,   \* application callbacks invoked by the handler that ran last
    ticks_out,    \* every sequence handed to on_ticks, in call order
    ncalls,       \* number of control calls made so far
    last_call,    \* the control call made last, with its arguments
    n_handed,     \* number of messages passed to factory.send_message
    last_handed,  \* the message passed to factory.send_message last
    err           \* exception that left the operation that ran last

vars == <<bin, feed, split, parsed, on_ticks, on_connect, on_message, on_close,
          factory, nev, last_event, last_calls, ticks_out, ncalls, last_call,
          n_handed, last_handed, err>>

codecVars == <<bin, feed, split, parsed>>
fieldVars == <<on_ticks, on_connect, on_message, on_close, factory>>
eventVars == <<nev, last_event, last_calls, ticks_out>>
sendVars == <<ncalls, last_call, n_handed, last_handed>>

----------------------------------------------------------------------------
(* Bounds of the model.                                                    *)

\* longest raw frame enumerated byte by byte
MaxRawLen == 5
\* most sub-packets in a generated frame
MaxPackets == 2
\* payload patterns 0..MaxSeed (0 is the all-zero payload)
MaxSeed == 1
\* most proxy events in one behaviour
MaxEvents == 2
\* longest token list given to subscribe / unsubscribe / set_mode
MaxTokens == 2
\* most control calls in one behaviour
MaxSent == 2

----------------------------------------------------------------------------
(* Python primitives used by the codec.                                    *)

Min(a, b) == IF a < b THEN a ELSE b

\* bin[start:end] for 0 <= start: the slice is clipped to the buffer.
Slice(s, start, end) ==
    LET hi == Min(end, Len(s))
    IN IF start >= hi THEN <<>> ELSE SubSeq(s, start + 1, hi)

\* struct.calcsize(">" + byte_format)
FormatSize(byte_format) == IF byte_format = "H" THEN 2 ELSE 4

RECURSIVE BigEndian(_)
BigEndian(b) ==
    IF b = <<>> THEN 0
    ELSE BigEndian(SubSeq(b, 1, Len(b) - 1)) * 256 + b[Len(b)]

\* _unpack_int: struct.unpack raises struct.error unless the slice has exactly
\* the size of the format.
UnpackInt(buf, start, end, byte_format) ==
    LET b == Slice(buf, start, end)
    IN IF Len(b) # FormatSize(byte_format)
       THEN [err |-> "struct.error", val |-> 0]
       ELSE [err |-> "none", val |-> BigEndian(b)]

----------------------------------------------------------------------------
(* _split_packets                                                          *)

RECURSIVE SplitLoopShortAdvance(_, _, _, _)
\* A slip in the cursor: j = j + packet_length, the 2-byte prefix forgotten.
SplitLoopShortAdvance(buf, n, j, packets) ==
    IF n = 0 THEN [err |-> "none", val |-> packets]
    ELSE LET packet_length == UnpackInt(buf, j, j + 2, "H")
         IN IF packet_length.err # "none"
            THEN [err |-> packet_length.err, val |-> <<>>]
            ELSE SplitLoopShortAdvance(buf, n - 1, j + packet_length.val,
                     Append(packets, Slice(buf, j + 2, j + 2 + packet_length.val)))

RECURSIVE SplitLoop(_, _, _, _)
\* for i in range(number_of_packets): n iterations are left, j is the cursor.
SplitLoop(buf, n, j, packets) ==
    IF n = 0 THEN [err |-> "none", val |-> packets]
    ELSE LET packet_length == UnpackInt(buf, j, j + 2, "H")
         IN IF packet_length.err # "none"
            THEN [err |-> packet_length.err, val |-> <<>>]
            ELSE SplitLoop(buf, n - 1, j + 2 + packet_length.val,
                     Append(packets, Slice(buf, j + 2, j + 2 + packet_length.val)))

SplitPackets(buf) ==
    IF Len(buf) < 2 THEN [err |-> "none", val |-> <<>>]
    ELSE LET number_of_packets == UnpackInt(buf, 0, 2, "H")
         IN SplitLoop(buf, number_of_packets.val, 2, <<>>)

----------------------------------------------------------------------------
(* _parse_binary                                                           *)

EXCHANGE_MAP ==
    [nse |-> 1, nfo |-> 2, cds |-> 3, bse |-> 4, bfo |-> 5, bsecds |-> 6,
     mcx |-> 7, mcxsx |-> 8, indices |-> 9]

MODE_FULL == "full"
MODE_QUOTE == "quote"
MODE_LTP == "ltp"

\* The names bound at module level: the four imports and the three classes.
ModuleGlobals ==
    {"six", "asyncio", "struct", "json",
     "TickerClientProtocol", "TickerClientFactory", "MainTicker"}

\* Python's None where a timestamp is expected.
None == [present |-> FALSE, epoch |-> 0]

\* datetime.fromtimestamp(seconds): the name datetime is looked up first, and a
\* name that is not bound raises NameError.
FromTimestamp(seconds) ==
    IF "datetime" \notin ModuleGlobals
    THEN [err |-> "NameError", val |-> 0]
    ELSE [err |-> "none", val |-> seconds]

\* try: datetime.fromtimestamp(...)  except Exception: None
TryTimestamp(seconds) ==
    LET r == FromTimestamp(seconds)
    IN IF r.err # "none" THEN None ELSE [present |-> TRUE, epoch |-> r.val]

\* A 4-byte field of a packet whose length the branch has already matched, so
\* that the slice is whole and struct.unpack cannot raise.
Field(packet, start, end) == UnpackInt(packet, start, end, "I").val

\* raw / divisor
Price(raw, divisor) == [num |-> raw, den |-> divisor]

\* A slip in the mask: two bytes of the token kept instead of one.
SegmentWideMask(instrument_token) == instrument_token % 65536

\* segment = instrument_token & 0xff
Segment(instrument_token) == instrument_token % 256

Divisor(segment) ==
    IF segment = EXCHANGE_MAP.cds THEN 10000000
    ELSE IF segment = EXCHANGE_MAP.bsecds THEN 10000
    ELSE 100

Tradable(segment) == IF segment = EXCHANGE_MAP.indices THEN FALSE ELSE TRUE

\* d["change"]: 0, or (last_price - close) * 100 / close when close != 0; the
\* common divisor of the two prices cancels in the quotient.
Change(last_price, close) ==
    IF close.num # 0
    THEN [num |-> (last_price.num - close.num) * 100, den |-> close.num]
    ELSE [num |-> 0, den |-> 1]

\* A slip in the index branch: the two modes exchanged.
IndexModeSwapped(packet) == IF Len(packet) = 28 THEN MODE_FULL ELSE MODE_QUOTE

\* mode of a 28- or 32-byte packet
IndexMode(packet) == IF Len(packet) = 28 THEN MODE_QUOTE ELSE MODE_FULL

\* mode of a 44- or 184-byte packet
QuoteMode(packet) == IF Len(packet) = 44 THEN MODE_QUOTE ELSE MODE_FULL

\* One market depth entry read at offset p.
DepthEntry(packet, p, divisor) ==
    [quantity |-> Field(packet, p, p + 4),
     price |-> Price(Field(packet, p + 4, p + 8), divisor),
     orders |-> UnpackInt(packet, p + 8, p + 10, "H").val]

\* A slip in the side test: i > 5 instead of i >= 5.
DepthLateSell(packet, divisor) ==
    LET n == IF Len(packet) <= 64 THEN 0 ELSE (Len(packet) - 64 + 11) \div 12
        nbuy == Min(n, 6)
    IN [buy |-> [i \in 1..nbuy |->
                    DepthEntry(packet, 64 + 12 * (i - 1), divisor)],
        sell |-> [i \in 1..(n - nbuy) |->
                    DepthEntry(packet, 64 + 12 * (i + nbuy - 1), divisor)]]

\* for i, p in enumerate(range(64, len(packet), 12)): entry i goes to "sell"
\* when i >= 5 and to "buy" otherwise, each list in encounter order.
Depth(packet, divisor) ==
    LET n == IF Len(packet) <= 64 THEN 0 ELSE (Len(packet) - 64 + 11) \div 12
        nbuy == Min(n, 5)
    IN [buy |-> [i \in 1..nbuy |->
                    DepthEntry(packet, 64 + 12 * (i - 1), divisor)],
        sell |-> [i \in 1..(n - nbuy) |->
                    DepthEntry(packet, 64 + 12 * (i + nbuy - 1), divisor)]]

\* The body of the loop of _parse_binary for one packet: val holds the tick
\* appended to data, or nothing.
ParsePacket(packet) ==
    LET tok == UnpackInt(packet, 0, 4, "I")
    IN IF tok.err # "none" THEN [err |-> tok.err, val |-> <<>>]
       ELSE
       LET instrument_token == tok.val
           segment == Segment(instrument_token)
           divisor == Divisor(segment)
           tradable == Tradable(segment)
       IN IF Len(packet) = 8 THEN
            [err |-> "none", val |-> <<
              [tradable |-> tradable,
               mode |-> MODE_LTP,
               instrument_token |-> instrument_token,
               last_price |-> Price(Field(packet, 4, 8), divisor)] >>]
          ELSE IF Len(packet) = 28 \/ Len(packet) = 32 THEN
            LET last_price == Price(Field(packet, 4, 8), divisor)
                ohlc == [high |-> Price(Field(packet, 8, 12), divisor),
                         low |-> Price(Field(packet, 12, 16), divisor),
                         open |-> Price(Field(packet, 16, 20), divisor),
                         close |-> Price(Field(packet, 20, 24), divisor)]
            IN IF Len(packet) = 32 THEN
                 [err |-> "none", val |-> <<
                   [tradable |-> tradable,
                    mode |-> IndexMode(packet),
                    instrument_token |-> instrument_token,
                    last_price |-> last_price,
                    ohlc |-> ohlc,
                    change |-> Change(last_price, ohlc.close),
                    exchange_timestamp |->
                        TryTimestamp(Field(packet, 28, 32))] >>]
               ELSE
                 [err |-> "none", val |-> <<
                   [tradable |-> tradable,
                    mode |-> IndexMode(packet),
                    instrument_token |-> instrument_token,
                    last_price |-> last_price,
                    ohlc |-> ohlc,
                    change |-> Change(last_price, ohlc.close)] >>]
          ELSE IF Len(packet) = 44 \/ Len(packet) = 184 THEN
            LET last_price == Price(Field(packet, 4, 8), divisor)
                ohlc == [open |-> Price(Field(packet, 28, 32), divisor),
                         high |-> Price(Field(packet, 32, 36), divisor),
                         low |-> Price(Field(packet, 36, 40), divisor),
                         close |-> Price(Field(packet, 40, 44), divisor)]
            IN IF Len(packet) = 184 THEN
                 [err |-> "none", val |-> <<
                   [tradable |-> tradable,
                    mode |-> QuoteMode(packet),
                    instrument_token |-> instrument_token,
                    last_price |-> last_price,
                    last_traded_quantity |-> Field(packet, 8, 12),
                    average_traded_price |->
                        Price(Field(packet, 12, 16), divisor),
                    volume_traded |-> Field(packet, 16, 20),
                    total_buy_quantity |-> Field(packet, 20, 24),
                    total_sell_quantity |-> Field(packet, 24, 28),
                    ohlc |-> ohlc,
                    change |-> Change(last_price, ohlc.close),
                    last_trade_time |-> TryTimestamp(Field(packet, 44, 48)),
                    oi |-> Field(packet, 48, 52),
                    oi_day_high |-> Field(packet, 52, 56),
                    oi_day_low |-> Field(packet, 56, 60),
                    exchange_timestamp |->
                        TryTimestamp(Field(packet, 60, 64)),
                    depth |-> Depth(packet, divisor)] >>]
               ELSE
                 [err |-> "none", val |-> <<
                   [tradable |-> tradable,
                    mode |-> QuoteMode(packet),
                    instrument_token |-> instrument_token,
                    last_price |-> last_price,
                    last_traded_quantity |-> Field(packet, 8, 12),
                    average_traded_price |->
                        Price(Field(packet, 12, 16), divisor),
                    volume_traded |-> Field(packet, 16, 20),
                    total_buy_quantity |-> Field(packet, 20, 24),
                    total_sell_quantity |-> Field(packet, 24, 28),
                    ohlc |-> ohlc,
                    change |-> Change(last_price, ohlc.close)] >>]
          ELSE [err |-> "none", val |-> <<>>]

RECURSIVE ParseLoop(_, _, _)
\* for packet in packets: packet k is next, data holds the ticks so far; an
\* exception in one packet leaves the loop and the function.
ParseLoop(packets, k, data) ==
    IF k > Len(packets) THEN [err |-> "none", val |-> data]
    ELSE LET r == ParsePacket(packets[k])
         IN IF r.err # "none" THEN [err |-> r.err, val |-> <<>>]
            ELSE ParseLoop(packets, k + 1, data \o r.val)

ParseBinary(buf) ==
    LET packets == SplitPackets(buf)
    IN IF packets.err # "none" THEN [err |-> packets.err, val |-> <<>>]
       ELSE ParseLoop(packets.val, 1, <<>>)

----------------------------------------------------------------------------
(* The frames given to the codec.                                          *)

\* <<hi, lo>>: a 16-bit big-endian count or length, as the feed writes it.
LenPrefix(n) == <<n \div 256, n % 256>>

\* Sub-packet lengths the feed sends: every recognised length, lengths that are
\* not recognised (5) and lengths too short to hold a token (0, 3).
PacketLens == {0, 3, 5, 8, 28, 32, 44, 184}

\* Low bytes of the instrument tokens the feed sends: cds, bsecds, indices, an
\* ordinary segment and a value that is not in EXCHANGE_MAP.
SegmentBytes == <<1, 3, 6, 9, 77>>

\* Byte i (0-based) of a generated payload: the token's low byte is seg, the
\* top byte of every 32-bit field is 0, every other byte follows the pattern
\* of the seed (seed 0: all zero, so that close = 0 there).
PayloadByte(seg, seed, i) ==
    IF i = 3 THEN seg
    ELSE IF i % 4 = 0 /\ (i < 64 \/ (i - 64) % 12 # 8) THEN 0
    ELSE (seed * (37 + 11 * i)) % 256

Payload(len, seg, seed) == [i \in 1..len |-> PayloadByte(seg, seed, i - 1)]

\* The payloads of one generated frame: packet k has length lens[k], the k-th
\* segment after position s of SegmentBytes, and pattern seed + k - 1.
Payloads(lens, s, seed) ==
    [k \in 1..Len(lens) |->
        Payload(lens[k],
                SegmentBytes[((s + k - 2) % Len(SegmentBytes)) + 1],
                seed + k - 1)]

RECURSIVE Rejoin(_)
\* The records of a frame: each payload behind its 2-byte length.
Rejoin(payloads) ==
    IF payloads = <<>> THEN <<>>
    ELSE LenPrefix(Len(Head(payloads))) \o Head(payloads)
             \o Rejoin(Tail(payloads))

\* A frame as the feed writes it: the packet count, then the records.
BuildFrame(payloads) == LenPrefix(Len(payloads)) \o Rejoin(payloads)

SeqsUpTo(S, n) == UNION {[1..k -> S] : k \in 0..n}

RawBytes == {0, 1, 2}

\* Every byte string over RawBytes of at most MaxRawLen bytes: well-formed
\* frames, truncated frames and heartbeats alike.
RawFeeds ==
    {[kind |-> "raw", payloads |-> <<>>, raw |-> r] :
        r \in SeqsUpTo(RawBytes, MaxRawLen)}

\* Well-formed frames of at most MaxPackets generated payloads.
BuiltFeeds ==
    {[kind |-> "built", payloads |-> Payloads(lens, s, seed), raw |-> <<>>] :
        lens \in SeqsUpTo(PacketLens, MaxPackets),
        s \in 1..Len(SegmentBytes),
        seed \in 0..MaxSeed}

FrameOf(f) == IF f.kind = "raw" THEN f.raw ELSE BuildFrame(f.payloads)

----------------------------------------------------------------------------
(* State after MainTicker.__init__, and the idle values of the observers.  *)

NotRun == [err |-> "not run", val |-> <<>>]

NoFactory == [made |-> FALSE, ws |-> "None"]

NoEvent == [ev |-> "none", data |-> <<>>, payloads |-> <<>>, cut |-> 0]

NoCall == [op |-> "none", mode |-> "", tokens |-> <<>>]

NoMessage == [bytes |-> <<>>]

InitFields ==
    /\ on_ticks = "None"
    /\ on_connect = "None"
    /\ on_message = "None"
    /\ on_close = "unset"
    /\ factory = NoFactory

InitObservers ==
    /\ nev = 0
    /\ last_event = NoEvent
    /\ last_calls = <<>>
    /\ ticks_out = <<>>
    /\ ncalls = 0
    /\ last_call = NoCall
    /\ n_handed = 0
    /\ last_handed = NoMessage
    /\ err = "none"

IdleCodec ==
    /\ bin = <<>>
    /\ feed = [kind |-> "raw", payloads |-> <<>>, raw |-> <<>>]
    /\ split = NotRun
    /\ parsed = NotRun

----------------------------------------------------------------------------
(* The codec applied to one frame.                                         *)

InitCodec ==
    /\ feed \in RawFeeds \cup BuiltFeeds
    /\ bin = FrameOf(feed)
    /\ split = NotRun
    /\ parsed = NotRun
    /\ InitFields
    /\ InitObservers

SplitPacketsCall ==
    /\ split = NotRun
    /\ split' = SplitPackets(bin)
    /\ UNCHANGED <<bin, feed, parsed, fieldVars, eventVars, sendVars, err>>

ParseBinaryCall ==
    /\ parsed = NotRun
    /\ parsed' = ParseBinary(bin)
    /\ UNCHANGED <<bin, feed, split, fieldVars, eventVars, sendVars, err>>

NextCodec == SplitPacketsCall \/ ParseBinaryCall

SpecCodec == InitCodec /\ [][NextCodec]_vars

----------------------------------------------------------------------------
(* Properties of the codec.                                                *)

\* The 32-bit big-endian value at 0-based offset off, read byte by byte.
Word(packet, off) ==
    packet[off + 1] * 16777216 + packet[off + 2] * 65536
        + packet[off + 3] * 256 + packet[off + 4]

\* The 16-bit big-endian value at 0-based offset off.
Half(s, off) == s[off + 1] * 256 + s[off + 2]

RECURSIVE ValidRecords(_, _)
\* s is exactly n records of a 2-byte length and that many bytes.
ValidRecords(s, n) ==
    IF n = 0 THEN s = <<>>
    ELSE /\ Len(s) >= 2
         /\ Len(s) >= 2 + Half(s, 0)
         /\ ValidRecords(SubSeq(s, 3 + Half(s, 0), Len(s)), n - 1)

ValidFrame(b) ==
    /\ Len(b) >= 2
    /\ ValidRecords(SubSeq(b, 3, Len(b)), Half(b, 0))

RECURSIVE Fits(_, _)
\* n records can be read from s without reading past its end.
Fits(s, n) ==
    \/ n = 0
    \/ /\ Len(s) >= 2
       /\ Len(s) >= 2 + Half(s, 0)
       /\ Fits(SubSeq(s, 3 + Half(s, 0), Len(s)), n - 1)

RecognisedLens == {8, 28, 32, 44, 184}

Recognised(packet) == Len(packet) \in RecognisedLens

ModeOfLength(n) ==
    CASE n = 8 -> "ltp"
      [] n = 28 -> "quote"
      [] n = 32 -> "full"
      [] n = 44 -> "quote"
      [] n = 184 -> "full"

\* _parse_binary returned, for a frame the feed built.
Decoded == parsed.err = "none" /\ feed.kind = "built"

\* The payloads of the frame that have a recognised length, in order.
Sent == SelectSeq(feed.payloads, Recognised)

\* C1: for every valid frame _split_packets returns exactly packet_count
\* slices, and the slices behind their 2-byte lengths, in order, are the frame
\* from offset 2 onward; for a frame the feed built they are its payloads.
C1_SplitRoundTrip ==
    (split # NotRun /\ ValidFrame(bin)) =>
        /\ split.err = "none"
        /\ Len(split.val) = Half(bin, 0)
        /\ Rejoin(split.val) = SubSeq(bin, 3, Len(bin))
        /\ feed.kind = "built" => split.val = feed.payloads

C1_Witness ==
    /\ split # NotRun
    /\ ValidFrame(bin)
    /\ Len(split.val) = 2
    /\ Len(split.val[1]) = 8
    /\ Len(split.val[2]) = 184

\* C2: for every frame of at least 2 bytes whose packet count or one of whose
\* packet lengths reads past the end of the buffer, splitting fails: no packet
\* list is returned.
C2_TruncatedFrameFails ==
    (split # NotRun /\ Len(bin) >= 2
        /\ ~Fits(SubSeq(bin, 3, Len(bin)), Half(bin, 0)))
    => split.err # "none"

\* C3: a sub-packet whose length is not 8, 28, 32, 44 or 184 yields no tick and
\* no error, and the other sub-packets of the frame are still decoded.
C3_UnrecognisedLengthIgnored ==
    (parsed # NotRun /\ feed.kind = "built") =>
        /\ parsed.err = "none"
        /\ Len(parsed.val) = Len(Sent)

\* C4: the mode of every decoded tick is the one its sub-packet's length
\* gives (8 ltp, 28 quote, 32 full, 44 quote, 184 full), whatever the token
\* and the payload.
C4_ModeFromLength ==
    Decoded =>
        /\ Len(parsed.val) = Len(Sent)
        /\ \A k \in 1..Len(Sent) :
               parsed.val[k].mode = ModeOfLength(Len(Sent[k]))

C4_Witness ==
    /\ Decoded
    /\ Len(parsed.val) = 2
    /\ Len(Sent[1]) = 44 /\ parsed.val[1].mode = "quote"
    /\ Len(Sent[2]) = 32 /\ parsed.val[2].mode = "full"
    /\ parsed.val[1].instrument_token > 255

\* C5: tradable and the price divisor depend on the low byte of the token
\* alone: tradable is false exactly when it is 9, the divisor is 10000000 for
\* 3, 10000 for 6 and 100 for every other value.
C5_SegmentDecides ==
    Decoded =>
        /\ Len(parsed.val) = Len(Sent)
        /\ \A k \in 1..Len(Sent) :
             LET low == Sent[k][4]
                 t == parsed.val[k]
             IN /\ t.instrument_token = Word(Sent[k], 0)
                /\ t.tradable = (low # 9)
                /\ t.last_price.den =
                       (IF low = 3 THEN 10000000
                        ELSE IF low = 6 THEN 10000 ELSE 100)

C5_Witness ==
    /\ Decoded
    /\ Len(parsed.val) = 2
    /\ parsed.val[1].instrument_token > 255
    /\ parsed.val[1].instrument_token % 256 = 9
    /\ ~parsed.val[1].tradable
    /\ parsed.val[2].instrument_token % 256 = 77
    /\ parsed.val[2].tradable
    /\ parsed.val[2].last_price.den = 100

\* C6: a 184-byte sub-packet decodes to exactly 5 buy and 5 sell levels; the
\* k-th 12-byte record from offset 64 (k = 0..9) is buy level k for k < 5 and
\* sell level k - 5 otherwise, with quantity from record bytes 0..4, price from
\* bytes 4..8 and orders from bytes 8..10.
C6_DepthGeometry ==
    Decoded =>
        /\ Len(parsed.val) = Len(Sent)
        /\ \A k \in 1..Len(Sent) :
             Len(Sent[k]) = 184 =>
               LET d == parsed.val[k].depth
               IN /\ Len(d.buy) = 5
                  /\ Len(d.sell) = 5
                  /\ \A j \in 0..9 :
                       LET e == IF j < 5 THEN d.buy[j + 1] ELSE d.sell[j - 4]
                           o == 64 + 12 * j
                       IN /\ e.quantity = Word(Sent[k], o)
                          /\ e.price.num = Word(Sent[k], o + 4)
                          /\ e.orders = Half(Sent[k], o + 8)

C6_Witness ==
    /\ Decoded
    /\ Len(parsed.val) >= 1
    /\ Len(Sent[1]) = 184
    /\ parsed.val[1].depth.buy[3].orders = Half(Sent[1], 64 + 2 * 12 + 8)
    /\ parsed.val[1].depth.buy[3].orders > 255
    /\ parsed.val[1].depth.buy[3].orders # parsed.val[1].depth.buy[2].orders
    /\ parsed.val[1].depth.sell[1].quantity = Word(Sent[1], 64 + 5 * 12)
    /\ parsed.val[1].depth.sell[1].quantity > 0

\* C7: each timestamp of a 32- or 184-byte sub-packet is the time its 32-bit
\* epoch value denotes whenever that value is representable (every value of
\* the generated payloads is: they are below 2^24).
C7_TimestampDecoded ==
    Decoded =>
        /\ Len(parsed.val) = Len(Sent)
        /\ \A k \in 1..Len(Sent) :
             /\ Len(Sent[k]) = 32 =>
                  parsed.val[k].exchange_timestamp =
                      [present |-> TRUE, epoch |-> Word(Sent[k], 28)]
             /\ Len(Sent[k]) = 184 =>
                  /\ parsed.val[k].exchange_timestamp =
                         [present |-> TRUE, epoch |-> Word(Sent[k], 60)]
                  /\ parsed.val[k].last_trade_time =
                         [present |-> TRUE, epoch |-> Word(Sent[k], 44)]

----------------------------------------------------------------------------
(* The proxy handlers of MainTicker: _on_connect, _on_message, _on_close.  *)
(* A field holds "None", "handler" (a callable the application assigned)   *)
(* or, for on_close, "unset": __init__ never creates that attribute.       *)

\* Payload lengths of the frames the transport delivers.
FeedLens == {<<>>, <<8>>, <<5>>, <<8, 28>>, <<8, 3>>}

\* Bytes missing from the end of a delivered frame.
FeedCuts == {0, 1, 2}

\* Bytes that follow the last record of a delivered frame.
FeedPads == {0, 3}

\* What the transport delivers: a built frame, whole, cut short, or followed
\* by stray bytes. The empty list cut by 1 or 2 is a heartbeat frame.
FeedInputs ==
    {d \in [lens : FeedLens, cut : FeedCuts, pad : FeedPads] :
        d.cut = 0 \/ d.pad = 0}

FeedPayloads(d) == Payloads(d.lens, 1, 1)

FeedFrame(d) ==
    LET whole == BuildFrame(FeedPayloads(d))
    IN SubSeq(whole, 1, Len(whole) - Min(d.cut, Len(whole)))
           \o [i \in 1..d.pad |-> 7]

\* The delivered frames and what _parse_binary makes of each, computed once.
Delivered == [d \in FeedInputs |-> FeedFrame(d)]

DeliveredPayloads == [d \in FeedInputs |-> FeedPayloads(d)]

DeliveredParsed == [d \in FeedInputs |-> ParseBinary(Delivered[d])]

\* A slip in the guard of _on_message: every frame is parsed and handed over.
TicksDueAnyLength(data) == on_ticks = "handler"

\* if self.on_ticks and len(data) > 4
TicksDue(data) == on_ticks = "handler" /\ Len(data) > 4

AssignOnTicks(v) ==
    /\ on_ticks' = v
    /\ UNCHANGED <<on_connect, on_message, on_close, factory, codecVars,
                   eventVars, sendVars, err>>

AssignOnConnect(v) ==
    /\ on_connect' = v
    /\ UNCHANGED <<on_ticks, on_message, on_close, factory, codecVars,
                   eventVars, sendVars, err>>

AssignOnMessage(v) ==
    /\ on_message' = v
    /\ UNCHANGED <<on_ticks, on_connect, on_close, factory, codecVars,
                   eventVars, sendVars, err>>

AssignOnClose(v) ==
    /\ on_close' = v
    /\ UNCHANGED <<on_ticks, on_connect, on_message, factory, codecVars,
                   eventVars, sendVars, err>>

Call(cb, data, ticks) == [cb |-> cb, data |-> data, ticks |-> ticks]

OnConnect ==
    /\ nev < MaxEvents
    /\ nev' = nev + 1
    /\ last_event' = [NoEvent EXCEPT !.ev = "connect"]
    /\ last_calls' = IF on_connect = "handler"
                     THEN <<Call("on_connect", <<>>, <<>>)>> ELSE <<>>
    /\ err' = "none"
    /\ UNCHANGED <<ticks_out, fieldVars, codecVars, sendVars>>

OnMessage(d) ==
    LET data == Delivered[d]
        first == IF on_message = "handler"
                 THEN <<Call("on_message", data, <<>>)>> ELSE <<>>
        r == IF TicksDue(data) THEN DeliveredParsed[d]
             ELSE [err |-> "none", val |-> <<>>]
        handed == TicksDue(data) /\ r.err = "none"
    IN /\ nev < MaxEvents
       /\ nev' = nev + 1
       /\ last_event' = [ev |-> "message", data |-> data,
                         payloads |-> DeliveredPayloads[d], cut |-> d.cut]
       /\ last_calls' = IF handed
                        THEN first \o <<Call("on_ticks", <<>>, r.val)>>
                        ELSE first
       /\ ticks_out' = IF handed THEN Append(ticks_out, r.val) ELSE ticks_out
       /\ err' = r.err
       /\ UNCHANGED <<fieldVars, codecVars, sendVars>>

OnClose ==
    /\ nev < MaxEvents
    /\ nev' = nev + 1
    /\ last_event' = [NoEvent EXCEPT !.ev = "close"]
    /\ last_calls' = IF on_close = "handler"
                     THEN <<Call("on_close", <<>>, <<>>)>> ELSE <<>>
    /\ err' = IF on_close = "unset" THEN "AttributeError" ELSE "none"
    /\ UNCHANGED <<ticks_out, fieldVars, codecVars, sendVars>>

Init == IdleCodec /\ InitFields /\ InitObservers

Next ==
    \/ \E v \in {"None", "handler"} : AssignOnTicks(v)
    \/ \E v \in {"None", "handler"} : AssignOnConnect(v)
    \/ \E v \in {"None", "handler"} : AssignOnMessage(v)
    \/ \E v \in {"None", "handler"} : AssignOnClose(v)
    \/ OnConnect
    \/ \E d \in FeedInputs : OnMessage(d)
    \/ OnClose

Spec == Init /\ [][Next]_vars

----------------------------------------------------------------------------
(* Properties of the proxy handlers.                                       *)

RECURSIVE TicksOf(_)
\* The ticks of a list of payloads, each decoded on its own, in order.
TicksOf(payloads) ==
    IF payloads = <<>> THEN <<>>
    ELSE ParsePacket(Head(payloads)).val \o TicksOf(Tail(payloads))

\* A step in which _on_message handled a frame.
MessageStep == nev' = nev + 1 /\ last_event'.ev = "message"

\* C8, as amended: while on_ticks is set, a frame of more than 4 bytes whose
\* decoding completes is handed over as exactly one sequence, appended after
\* those of the earlier frames; for a whole frame it holds the ticks of the
\* frame's sub-packets in order (none for a frame that declares no packets).
\* A frame of at most 4 bytes (every heartbeat, and the 2-byte frame that
\* declares no packets) invokes no consumer, and neither does a frame whose
\* decoding raises (a whole frame raises exactly when it holds a sub-packet
\* shorter than 4 bytes).
C8_OneSequencePerLongFrame ==
    [][MessageStep =>
        LET e == last_event'
        IN IF on_ticks # "handler" \/ Len(e.data) <= 4
           THEN ticks_out' = ticks_out
           ELSE IF e.cut = 0
           THEN IF \A k \in 1..Len(e.payloads) : Len(e.payloads[k]) >= 4
                THEN /\ err' = "none"
                     /\ ticks_out' = Append(ticks_out, TicksOf(e.payloads))
                ELSE /\ err' = "struct.error"
                     /\ ticks_out' = ticks_out
           ELSE \/ /\ err' = "none"
                   /\ Len(ticks_out') = Len(ticks_out) + 1
                   /\ SubSeq(ticks_out', 1, Len(ticks_out)) = ticks_out
                \/ /\ err' # "none"
                   /\ ticks_out' = ticks_out]_vars

C8_Witness ==
    /\ last_event.ev = "message"
    /\ on_ticks = "handler"
    /\ Len(ticks_out) = 2
    /\ Len(ticks_out[1]) = 2
    /\ ticks_out[1][1].mode = "ltp"
    /\ ticks_out[1][2].mode = "quote"
    /\ ticks_out[2] = <<>>
    /\ Len(last_event.data) > 4
    /\ Half(last_event.data, 0) = 0

\* C8, as stated: while on_ticks is set every delivered frame is handed over
\* as exactly one sequence, which is empty for a heartbeat frame (fewer than
\* 2 bytes) and for a frame that declares zero packets.
C8_OneSequencePerFrame ==
    [][(MessageStep /\ on_ticks = "handler") =>
        LET data == last_event'.data
        IN /\ Len(ticks_out') = Len(ticks_out) + 1
           /\ SubSeq(ticks_out', 1, Len(ticks_out)) = ticks_out
           /\ (Len(data) < 2 \/ (Len(data) >= 2 /\ Half(data, 0) = 0))
                  => ticks_out'[Len(ticks_out')] = <<>>]_vars

\* The application has assigned none of the handlers.
NoneAssigned ==
    /\ on_ticks = "None"
    /\ on_connect = "None"
    /\ on_message = "None"
    /\ on_close = "unset"

\* C10: on a MainTicker whose handlers were never assigned each proxy event
\* invokes no callback, raises nothing and leaves the fields unchanged; with a
\* handler assigned, the matching event invokes it exactly once.
C10_ProxiesTolerateNoHandler ==
    [][(nev' = nev + 1) =>
        /\ NoneAssigned =>
             /\ err' = "none"
             /\ last_calls' = <<>>
             /\ UNCHANGED fieldVars
        /\ (last_event'.ev = "connect" /\ on_connect = "handler") =>
             last_calls' = <<Call("on_connect", <<>>, <<>>)>>
        /\ (last_event'.ev = "close" /\ on_close = "handler") =>
             last_calls' = <<Call("on_close", <<>>, <<>>)>>
        /\ (last_event'.ev = "message" /\ on_message = "handler") =>
             Len(SelectSeq(last_calls', LAMBDA c : c.cb = "on_message")) = 1
       ]_vars

----------------------------------------------------------------------------
(* The control calls of MainTicker: subscribe, unsubscribe, set_mode.      *)
(* The text json.dumps returns is kept as the sequence of its lexemes:     *)
(* punctuation, quoted strings and decimal numbers. json.dumps separates   *)
(* items by ", " and keys from values by ": "; that spacing is not kept.   *)

\* json.dumps of a str without characters to escape
DumpsStr(str) == "\"" \o str \o "\""

RECURSIVE DumpsItems(_)
\* The items of a list of ints, separated by commas.
DumpsItems(token_list) ==
    IF token_list = <<>> THEN <<>>
    ELSE IF Len(token_list) = 1 THEN <<ToString(Head(token_list))>>
    ELSE <<ToString(Head(token_list)), ",">> \o DumpsItems(Tail(token_list))

RECURSIVE DumpsItemsOnce(_)
\* A slip in the list: a token equal to the one before it is written once.
DumpsItemsOnce(token_list) ==
    IF token_list = <<>> THEN <<>>
    ELSE IF Len(token_list) = 1 THEN <<ToString(Head(token_list))>>
    ELSE IF token_list[1] = token_list[2]
         THEN DumpsItemsOnce(Tail(token_list))
    ELSE <<ToString(Head(token_list)), ",">>
             \o DumpsItemsOnce(Tail(token_list))

DumpsListOnce(token_list) == <<"[">> \o DumpsItemsOnce(token_list) \o <<"]">>

\* json.dumps of a list of ints
DumpsList(token_list) == <<"[">> \o DumpsItems(token_list) \o <<"]">>

\* json.dumps({"a": action, "v": ...}): v is the text of the value of "v".
DumpsMessage(action, v) ==
    <<"{", DumpsStr("a"), ":", DumpsStr(action), ",", DumpsStr("v"), ":">>
        \o v \o <<"}">>

\* six.b(text): the bytes of the text, which json.dumps keeps ASCII.
SixB(text) == [bytes |-> text]

SubscribeMessage(token_list) ==
    SixB(DumpsMessage("subscribe", DumpsList(token_list)))

UnsubscribeMessage(token_list) ==
    SixB(DumpsMessage("unsubscribe", DumpsList(token_list)))

SetModeMessage(mode, token_list) ==
    SixB(DumpsMessage("mode",
        <<"[", DumpsStr(mode), ",">> \o DumpsList(token_list) \o <<"]">>))

\* Instrument tokens and mode strings the application passes.
TokenChoices == {5633, 408065}

ModeChoices == {MODE_LTP, MODE_QUOTE, MODE_FULL, "depth"}

TokenLists == SeqsUpTo(TokenChoices, MaxTokens)

\* MainTicker.connect_ws: the factory is created first; then the connection
\* is awaited, and create_connection either raises, leaving factory.ws None,
\* or returns the (transport, protocol) pair kept in factory.ws.
ConnectWs ==
    /\ \E ws \in {"None", "conn"} :
         /\ factory' = [made |-> TRUE, ws |-> ws]
         /\ err' = IF ws = "None" THEN "OSError" ELSE "none"
    /\ UNCHANGED <<on_ticks, on_connect, on_message, on_close, codecVars,
                   eventVars, sendVars>>

\* self.factory.send_message(message). Without a factory the attribute lookup
\* on None raises. TickerClientFactory.send_message does nothing while ws is
\* None; otherwise it calls ws[0].send_message, and ws[0] is the asyncio
\* transport, which has write but no send_message.
SendMessage(message) ==
    IF ~factory.made
    THEN /\ err' = "AttributeError"
         /\ UNCHANGED <<n_handed, last_handed>>
    ELSE /\ n_handed' = n_handed + 1
         /\ last_handed' = message
         /\ err' = IF factory.ws = "None" THEN "none" ELSE "AttributeError"

Subscribe(token_list) ==
    /\ ncalls < MaxSent
    /\ ncalls' = ncalls + 1
    /\ last_call' = [op |-> "subscribe", mode |-> "", tokens |-> token_list]
    /\ SendMessage(SubscribeMessage(token_list))
    /\ UNCHANGED <<fieldVars, codecVars, eventVars>>

Unsubscribe(token_list) ==
    /\ ncalls < MaxSent
    /\ ncalls' = ncalls + 1
    /\ last_call' = [op |-> "unsubscribe", mode |-> "", tokens |-> token_list]
    /\ SendMessage(UnsubscribeMessage(token_list))
    /\ UNCHANGED <<fieldVars, codecVars, eventVars>>

SetMode(mode, token_list) ==
    /\ ncalls < MaxSent
    /\ ncalls' = ncalls + 1
    /\ last_call' = [op |-> "set_mode", mode |-> mode, tokens |-> token_list]
    /\ SendMessage(SetModeMessage(mode, token_list))
    /\ UNCHANGED <<fieldVars, codecVars, eventVars>>

NextControl ==
    \/ ConnectWs
    \/ \E t \in TokenLists : Subscribe(t)
    \/ \E t \in TokenLists : Unsubscribe(t)
    \/ \E m \in ModeChoices, t \in TokenLists : SetMode(m, t)

SpecControl == Init /\ [][NextControl]_vars

----------------------------------------------------------------------------
(* Properties of the control calls.                                        *)

\* The lexemes of a list hold exactly the given tokens, in the given order:
\* list[1] opens it, token i is at 2 * i, a comma follows every token but the
\* last, and the list closes right after the last token.
IsList(list, tokens) ==
    LET n == Len(tokens)
    IN /\ Len(list) = (IF n = 0 THEN 2 ELSE 2 * n + 1)
       /\ list[1] = "["
       /\ list[Len(list)] = "]"
       /\ \A i \in 1..n : list[2 * i] = ToString(tokens[i])
       /\ \A i \in 1..(n - 1) : list[2 * i + 1] = ","

\* text is {"a": action, "v": <rest>}, rest being all that stands for "v".
IsEnvelope(text, action) ==
    /\ Len(text) >= 8
    /\ SubSeq(text, 1, 7) = <<"{", "\"a\"", ":", "\"" \o action \o "\"",
                              ",", "\"v\"", ":">>
    /\ text[Len(text)] = "}"

ValueOf(text) == SubSeq(text, 8, Len(text) - 1)

\* message is the message the call c is to build.
IsMessageOf(message, c) ==
    LET text == message.bytes
    IN IF c.op = "set_mode"
       THEN /\ IsEnvelope(text, "mode")
            /\ Len(ValueOf(text)) >= 4
            /\ SubSeq(ValueOf(text), 1, 3) = <<"[", "\"" \o c.mode \o "\"", ",">>
            /\ ValueOf(text)[Len(ValueOf(text))] = "]"
            /\ IsList(SubSeq(ValueOf(text), 4, Len(ValueOf(text)) - 1),
                      c.tokens)
       ELSE /\ IsEnvelope(text, c.op)
            /\ IsList(ValueOf(text), c.tokens)

ControlStep == ncalls' = ncalls + 1

\* C9, as amended: once connect_ws has created the factory, subscribe builds
\* {"a": "subscribe", "v": tokens}, unsubscribe {"a": "unsubscribe",
\* "v": tokens} and set_mode {"a": "mode", "v": [mode, tokens]}, with the
\* tokens in the order given and none added, dropped or duplicated, and each
\* call hands exactly one such message to the factory; a call made before the
\* factory exists raises AttributeError and hands over nothing.
C9_OneMessagePerCallOnceConnected ==
    [][ControlStep =>
        IF factory.made
        THEN /\ n_handed' = n_handed + 1
             /\ IsMessageOf(last_handed', last_call')
        ELSE /\ n_handed' = n_handed
             /\ last_handed' = last_handed
             /\ err' = "AttributeError"]_vars

C9_Witness ==
    /\ n_handed = 2
    /\ last_call = [op |-> "set_mode", mode |-> "full",
                    tokens |-> <<408065, 408065>>]
    /\ last_handed.bytes =
           <<"{", "\"a\"", ":", "\"mode\"", ",", "\"v\"", ":",
             "[", "\"full\"", ",", "[", "408065", ",", "408065", "]", "]", "}">>

\* C9, as stated: every call builds its message and hands exactly one such
\* message to the factory.
C9_OneMessagePerCall ==
    [][ControlStep =>
        /\ n_handed' = n_handed + 1
        /\ IsMessageOf(last_handed', last_call')]_vars

====
